---- MODULE Spec2Model ----
(***************************************************************************)
(* Model of src/main.py: the AudioTranscriber widget (load, transcribe,    *)
(* play, stop, jump_to_word, closeEvent), the TranscribeWorker thread and  *)
(* the Qt event loop that delivers the worker's queued signals.            *)
(*                                                                         *)
(* Times are kept in milliseconds (a float number of seconds s is the      *)
(* integer 1000*s); list items keep the two decimals the code prints.      *)
(***************************************************************************)
EXTENDS Integers, Sequences, FiniteSets, TLC

VARIABLES
    audio_path,      \* self.audio_path: None or the file name chosen last
    audio_segment,   \* self.audio_segment: the decoded buffer, or NoAudio
    play_obj,        \* self.play_obj: index into handles, NoHandle for None
    segments,        \* self.segments
    worker,          \* self.worker: index into workers, NoWorker for None
    model,           \* self.model: None or "small"
    load_btn,        \* load_btn.isEnabled()
    transcribe_btn,  \* transcribe_btn.isEnabled()
    play_btn,        \* play_btn.isEnabled()
    stop_btn,        \* stop_btn.isEnabled()
    list_enabled,    \* transcription_list.isEnabled()
    items,           \* the items of transcription_list
    status,          \* status_label.text(), by kind of message
    handles,         \* every PlayObject the device has handed out
    workers,         \* every TranscribeWorker created
    queue,           \* signals emitted by worker threads, not yet delivered
    pe,              \* transcribe_audio is inside QApplication.processEvents()
    waiting,         \* closeEvent is blocked in self.worker.wait()
    closed,          \* the close event was accepted (the window is gone)
    store,           \* SegmentStore: the (startSec, endSec) timeline looked up
    timeSec,         \* the time findActive was last asked about, -1 before
    active           \* the index findActive returned, NoIndex for None

vars == <<audio_path, audio_segment, play_obj, segments, worker, model,
          load_btn, transcribe_btn, play_btn, stop_btn, list_enabled, items,
          status, handles, workers, queue, pe, waiting, closed,
          store, timeSec, active>>

\* The state of the segment lookup (SegmentStore.findActive).
find == <<store, timeSec, active>>

\* The state the controller owns (everything but the device, the threads,
\* the signal queue and the event loop's own position).
ctrl == <<audio_path, audio_segment, play_obj, segments, worker, model,
          load_btn, transcribe_btn, play_btn, stop_btn, list_enabled, items,
          status>>

buttons == <<load_btn, transcribe_btn, play_btn, stop_btn>>

(***************************************************************************)
(* Bounds                                                                  *)
(***************************************************************************)
MaxHandles == 2
MaxWorkers == 2

(***************************************************************************)
(* Values                                                                  *)
(***************************************************************************)
None == "None"
NoHandle == 0
NoWorker == 0
NoAudio == [src |-> None, len |-> 0]
NoIndex == -1

\* What QFileDialog.getOpenFileName can return: "" when cancelled.
FileNames == {"", "a.wav", "empty.wav", "missing.wav"}

\* AudioSegment.from_file raises for a file it cannot decode.
Decodable(file_name) == file_name # "missing.wav"

\* The decoded buffer; len(buffer) is its duration in milliseconds.
FromFile(file_name) ==
    [src |-> file_name, len |-> IF file_name = "a.wav" THEN 3000 ELSE 0]

\* bool(self.audio_segment): None and a zero-length AudioSegment are falsy.
Truthy(seg) == seg # NoAudio /\ seg.len > 0

\* Segment lists model.transcribe(...) can return (start and end in ms).
Results ==
    { <<>>,
      << [text |-> "A", start |-> 0,    end |-> 2010],
         [text |-> "B", start |-> 2010, end |-> 4000] >>,
      << [text |-> " ", start |-> 1234, end |-> 1236] >> }

\* f"{x:.2f}": the number of hundredths printed. Values halfway between two
\* hundredths are left out of Results (their rounding depends on the binary
\* representation of the float).
Format2f(ms) == (ms + 5) \div 10

\* f"{seg['text']} ({seg['start']:.2f} - {seg['end']:.2f})"
FormatItem(seg) ==
    [text |-> seg.text, start |-> Format2f(seg.start), end |-> Format2f(seg.end)]

FormatItems(segs) == [i \in 1..Len(segs) |-> FormatItem(segs[i])]

\* Hundredths h below 8.00 for which float("h/100") * 1000 falls just below
\* the integer 10*h, so that int() truncates to 10*h - 1.
Truncated == {201, 203, 402, 406}

\* int(float(text.split("(")[-1].split("-")[0].strip()) * 1000)
ParseStartMs(item) ==
    IF item.start \in Truncated THEN 10 * item.start - 1 ELSE 10 * item.start

\* Faulty variant of Init: the Transcribe button is enabled outside the try,
\* whether or not the model was loaded.
Init_transcribe_enabled ==
    /\ audio_path = None
    /\ audio_segment = NoAudio
    /\ play_obj = NoHandle
    /\ segments = <<>>
    /\ worker = NoWorker
    /\ model \in {None, "small"}
    /\ load_btn = TRUE
    /\ transcribe_btn = TRUE
    /\ play_btn = FALSE
    /\ stop_btn = FALSE
    /\ list_enabled = TRUE
    /\ items = <<>>
    /\ status = IF model # None THEN "model loaded" ELSE "model error"
    /\ handles = <<>>
    /\ workers = <<>>
    /\ queue = <<>>
    /\ pe = FALSE
    /\ waiting = FALSE
    /\ closed = FALSE
    /\ store = <<>>
    /\ timeSec = -1
    /\ active = NoIndex

(***************************************************************************)
(* Initial state: AudioTranscriber.__init__                                *)
(***************************************************************************)
Init ==
    /\ audio_path = None
    /\ audio_segment = NoAudio
    /\ play_obj = NoHandle
    /\ segments = <<>>
    /\ worker = NoWorker
    /\ model \in {None, "small"}           \* whisper.load_model may raise
    /\ load_btn = TRUE
    /\ transcribe_btn = (model # None)
    /\ play_btn = FALSE
    /\ stop_btn = FALSE
    /\ list_enabled = TRUE
    /\ items = <<>>
    /\ status = IF model # None THEN "model loaded" ELSE "model error"
    /\ handles = <<>>
    /\ workers = <<>>
    /\ queue = <<>>
    /\ pe = FALSE
    /\ waiting = FALSE
    /\ closed = FALSE
    /\ store = <<>>
    /\ timeSec = -1
    /\ active = NoIndex

\* The window is shown and the main thread is dispatching user input.
UserInput == ~closed /\ ~waiting

(***************************************************************************)
(* load_audio                                                              *)
(***************************************************************************)
load_audio(file_name) ==
    /\ UserInput /\ load_btn
    /\ IF file_name = ""
       THEN UNCHANGED <<audio_path, audio_segment, status, play_btn, stop_btn>>
       ELSE /\ audio_path' = file_name
            /\ IF Decodable(file_name)
               THEN /\ audio_segment' = FromFile(file_name)
                    /\ status' = "loaded audio"
                    /\ play_btn' = TRUE
                    /\ stop_btn' = TRUE
               ELSE /\ status' = "error loading audio"
                    /\ UNCHANGED <<audio_segment, play_btn, stop_btn>>
    /\ UNCHANGED <<play_obj, segments, worker, model, load_btn, transcribe_btn,
                   list_enabled, items, handles, workers, queue, pe, waiting,
                   closed>>
    /\ UNCHANGED find

(***************************************************************************)
(* The playback device (simpleaudio)                                       *)
(***************************************************************************)
\* PlayObject.stop(): returns, or raises with the audio halted or not.
StopOutcomes == {"ok", "raise_stopped", "raise_playing"}

\* sa.play_buffer(...): returns a PlayObject, or raises.
PlayOutcomes == {"ok", "raise"}

\* A PlayObject whose audio has ended or was stopped: the device has dropped
\* its stream (and with it the position it played from).
Ended == [state |-> "ended", start_ms |-> 0]

\* self.play_obj and self.play_obj.is_playing()
IsPlaying == play_obj # NoHandle /\ handles[play_obj].state = "playing"

\* The audio of a PlayObject reaches its end: is_playing() turns False.
HandleFinish(h) ==
    /\ ~closed
    /\ h \in 1..Len(handles)
    /\ handles[h].state = "playing"
    /\ handles' = [handles EXCEPT ![h] = Ended]
    /\ UNCHANGED <<ctrl, workers, queue, pe, waiting, closed>>
    /\ UNCHANGED find

(***************************************************************************)
(* stop_audio                                                              *)
(***************************************************************************)
\* The device's handles once stop_audio has returned.
AfterStop(sout) ==
    IF IsPlaying /\ sout # "raise_playing"
    THEN [handles EXCEPT ![play_obj] = Ended]
    ELSE handles

\* The status text once stop_audio has returned (the except branch sets it).
StopStatus(sout) ==
    IF IsPlaying /\ sout # "ok" THEN "audio stop error" ELSE status

\* The Stop button's click.
stop_audio(sout) ==
    /\ UserInput /\ stop_btn
    /\ handles' = AfterStop(sout)
    /\ play_obj' = NoHandle
    /\ status' = StopStatus(sout)
    /\ UNCHANGED <<audio_path, audio_segment, segments, worker, model,
                   load_btn, transcribe_btn, play_btn, stop_btn, list_enabled,
                   items, workers, queue, pe, waiting, closed>>
    /\ UNCHANGED find

(***************************************************************************)
(* play_audio                                                              *)
(***************************************************************************)
\* The body of play_audio(start_ms) under "if self.audio_segment:".
PlayBody(start_ms, sout, pout) ==
    IF pout = "ok"
    THEN /\ handles' = Append(AfterStop(sout),
                              [state |-> "playing", start_ms |-> start_ms])
         /\ play_obj' = Len(handles) + 1
         /\ status' = StopStatus(sout)
         /\ list_enabled' = TRUE
    ELSE /\ handles' = AfterStop(sout)
         /\ play_obj' = NoHandle
         /\ status' = "audio playback error"
         /\ list_enabled' = TRUE

\* The Play button's click: clicked(checked=False) arrives as start_ms, and
\* audio_segment[False:] is the whole buffer.
play_audio(sout, pout) ==
    /\ UserInput /\ play_btn
    /\ Len(handles) < MaxHandles
    /\ IF Truthy(audio_segment)
       THEN PlayBody(0, sout, pout)
       ELSE UNCHANGED <<handles, play_obj, status, list_enabled>>
    /\ UNCHANGED <<audio_path, audio_segment, segments, worker, model,
                   load_btn, transcribe_btn, play_btn, stop_btn, items,
                   workers, queue, pe, waiting, closed>>
    /\ UNCHANGED find

(***************************************************************************)
(* jump_to_word                                                            *)
(***************************************************************************)
\* A click on item i of the list. The list is disabled, the start time is
\* parsed back from the item's text, then stop_audio() and play_audio().
jump_to_word(i, sout, pout) ==
    /\ UserInput /\ list_enabled
    /\ i \in 1..Len(items)
    /\ Len(handles) < MaxHandles
    /\ IF Truthy(audio_segment)
       THEN PlayBody(ParseStartMs(items[i]), sout, pout)
       ELSE /\ handles' = AfterStop(sout)
            /\ play_obj' = NoHandle
            /\ status' = StopStatus(sout)
            /\ list_enabled' = FALSE
    /\ UNCHANGED <<audio_path, audio_segment, segments, worker, model,
                   load_btn, transcribe_btn, play_btn, stop_btn, items,
                   workers, queue, pe, waiting, closed>>
    /\ UNCHANGED find

(***************************************************************************)
(* transcribe_audio                                                        *)
(***************************************************************************)
\* TranscribeWorker(self.model, self.audio_path), before start().
NewWorker ==
    [audio_path |-> audio_path, is_running |-> TRUE, thread |-> "started",
     emitted |-> "none"]

\* Faulty variant of transcribe_audio: the Transcribe button is left enabled.
transcribe_audio_btn_left_enabled ==
    /\ UserInput /\ transcribe_btn
    /\ Len(workers) < MaxWorkers
    /\ IF audio_path = None \/ model = None
       THEN /\ status' = "audio or model not loaded"
            /\ UNCHANGED <<buttons, pe>>
       ELSE /\ play_btn' = FALSE
            /\ stop_btn' = FALSE
            /\ load_btn' = FALSE
            /\ status' = "transcribing"
            /\ pe' = TRUE
            /\ UNCHANGED transcribe_btn
    /\ UNCHANGED <<audio_path, audio_segment, play_obj, segments, worker,
                   model, list_enabled, items, handles, workers, queue,
                   waiting, closed>>
    /\ UNCHANGED find

\* Faulty variant of transcribe_audio: the Load button is left enabled.
transcribe_audio_load_left_enabled ==
    /\ UserInput /\ transcribe_btn
    /\ Len(workers) < MaxWorkers
    /\ IF audio_path = None \/ model = None
       THEN /\ status' = "audio or model not loaded"
            /\ UNCHANGED <<buttons, pe>>
       ELSE /\ transcribe_btn' = FALSE
            /\ play_btn' = FALSE
            /\ stop_btn' = FALSE
            /\ status' = "transcribing"
            /\ pe' = TRUE
            /\ UNCHANGED load_btn
    /\ UNCHANGED <<audio_path, audio_segment, play_obj, segments, worker,
                   model, list_enabled, items, handles, workers, queue,
                   waiting, closed>>
    /\ UNCHANGED find

\* The Transcribe button's click, up to QApplication.processEvents().
transcribe_audio ==
    /\ UserInput /\ transcribe_btn
    /\ Len(workers) < MaxWorkers
    /\ IF audio_path = None \/ model = None
       THEN /\ status' = "audio or model not loaded"
            /\ UNCHANGED <<buttons, pe>>
       ELSE /\ transcribe_btn' = FALSE
            /\ play_btn' = FALSE
            /\ stop_btn' = FALSE
            /\ load_btn' = FALSE
            /\ status' = "transcribing"
            /\ pe' = TRUE
    /\ UNCHANGED <<audio_path, audio_segment, play_obj, segments, worker,
                   model, list_enabled, items, handles, workers, queue,
                   waiting, closed>>
    /\ UNCHANGED find

\* A TranscribeWorker that Python has freed: nothing refers to it once
\* self.worker is rebound, its thread has finished and its signal is delivered.
Collected ==
    [audio_path |-> None, is_running |-> FALSE, thread |-> "collected",
     emitted |-> "none"]

Collectable(w) ==
    /\ workers[w].thread = "exited"
    /\ \A k \in 1..Len(queue) : queue[k].w # w

\* processEvents() has returned: the worker is created and started, and
\* self.worker no longer refers to the previous one.
transcribe_start ==
    /\ pe /\ ~waiting
    /\ workers' = Append([w \in 1..Len(workers) |->
                            IF Collectable(w) THEN Collected ELSE workers[w]],
                         NewWorker)
    /\ worker' = Len(workers) + 1
    /\ pe' = FALSE
    /\ UNCHANGED <<audio_path, audio_segment, play_obj, segments, model,
                   buttons, list_enabled, items, status, handles, queue,
                   waiting, closed>>
    /\ UNCHANGED find

(***************************************************************************)
(* TranscribeWorker.run, on the worker's own thread                        *)
(***************************************************************************)
\* QThread.isRunning(): from start() until the thread has finished.
IsRunning(w) == workers[w].thread \in {"started", "calling"}

\* "if self._is_running:" enters model.transcribe, or falls through and the
\* thread finishes. (run() returns right after an emit: the thread's
\* finishing is taken together with the emit.)
run_check(w) ==
    /\ w \in 1..Len(workers)
    /\ workers[w].thread = "started"
    /\ workers' = [workers EXCEPT ![w].thread =
                     IF workers[w].is_running THEN "calling" ELSE "exited"]
    /\ UNCHANGED <<ctrl, handles, queue, pe, waiting, closed>>
    /\ UNCHANGED find

\* Faulty variant of run_finished: the slot's work is done on the worker's thread
\* (a direct connection) instead of being queued.
run_finished_direct(w, segs) ==
    /\ w \in 1..Len(workers)
    /\ workers[w].thread = "calling"
    /\ workers' = [workers EXCEPT ![w].thread = "exited",
                                  ![w].emitted = "finished"]
    /\ segments' = segs
    /\ items' = FormatItems(segs)
    /\ status' = "transcription done"
    /\ transcribe_btn' = TRUE
    /\ play_btn' = TRUE
    /\ stop_btn' = TRUE
    /\ load_btn' = TRUE
    /\ UNCHANGED <<audio_path, audio_segment, play_obj, worker, model,
                   list_enabled, handles, queue, pe, waiting, closed>>
    /\ UNCHANGED find

\* model.transcribe returns: self.finished.emit(segments). The emitting
\* thread is not the receiver's, so the slot call is queued.
run_finished(w, segs) ==
    /\ w \in 1..Len(workers)
    /\ workers[w].thread = "calling"
    /\ workers' = [workers EXCEPT ![w].thread = "exited",
                                  ![w].emitted = "finished"]
    /\ queue' = Append(queue, [signal |-> "finished", w |-> w, segments |-> segs])
    /\ UNCHANGED <<ctrl, handles, pe, waiting, closed>>
    /\ UNCHANGED find

\* Faulty variant of run_error: the exception is swallowed, nothing is emitted.
run_error_swallowed(w) ==
    /\ w \in 1..Len(workers)
    /\ workers[w].thread = "calling"
    /\ workers' = [workers EXCEPT ![w].thread = "exited"]
    /\ UNCHANGED <<ctrl, handles, queue, pe, waiting, closed>>
    /\ UNCHANGED find

\* model.transcribe raises: self.error.emit(str(e)), queued likewise.
run_error(w) ==
    /\ w \in 1..Len(workers)
    /\ workers[w].thread = "calling"
    /\ workers' = [workers EXCEPT ![w].thread = "exited",
                                  ![w].emitted = "error"]
    /\ queue' = Append(queue, [signal |-> "error", w |-> w, segments |-> <<>>])
    /\ UNCHANGED <<ctrl, handles, pe, waiting, closed>>
    /\ UNCHANGED find

(***************************************************************************)
(* on_transcription_done / on_transcription_error                          *)
(***************************************************************************)
\* The main thread's event loop may dispatch a queued signal.
Dispatching == ~waiting /\ queue # <<>>

\* Faulty variant of on_transcription_done: the list is not cleared first.
on_transcription_done_list_kept ==
    /\ Dispatching
    /\ Head(queue).signal = "finished"
    /\ segments' = Head(queue).segments
    /\ items' = items \o FormatItems(Head(queue).segments)
    /\ status' = "transcription done"
    /\ transcribe_btn' = TRUE
    /\ play_btn' = TRUE
    /\ stop_btn' = TRUE
    /\ load_btn' = TRUE
    /\ queue' = Tail(queue)
    /\ UNCHANGED <<audio_path, audio_segment, play_obj, worker, model,
                   list_enabled, handles, workers, pe, waiting, closed>>
    /\ UNCHANGED find

on_transcription_done ==
    /\ Dispatching
    /\ Head(queue).signal = "finished"
    /\ segments' = Head(queue).segments
    /\ items' = FormatItems(Head(queue).segments)
    /\ status' = "transcription done"
    /\ transcribe_btn' = TRUE
    /\ play_btn' = TRUE
    /\ stop_btn' = TRUE
    /\ load_btn' = TRUE
    /\ queue' = Tail(queue)
    /\ UNCHANGED <<audio_path, audio_segment, play_obj, worker, model,
                   list_enabled, handles, workers, pe, waiting, closed>>
    /\ UNCHANGED find

\* Faulty variant of on_transcription_error: the list and the segments are cleared.
on_transcription_error_clears ==
    /\ Dispatching
    /\ Head(queue).signal = "error"
    /\ status' = "transcription error"
    /\ segments' = <<>>
    /\ items' = <<>>
    /\ transcribe_btn' = TRUE
    /\ play_btn' = TRUE
    /\ stop_btn' = TRUE
    /\ load_btn' = TRUE
    /\ queue' = Tail(queue)
    /\ UNCHANGED <<audio_path, audio_segment, play_obj, worker, model,
                   list_enabled, handles, workers, pe, waiting, closed>>
    /\ UNCHANGED find

on_transcription_error ==
    /\ Dispatching
    /\ Head(queue).signal = "error"
    /\ status' = "transcription error"
    /\ transcribe_btn' = TRUE
    /\ play_btn' = TRUE
    /\ stop_btn' = TRUE
    /\ load_btn' = TRUE
    /\ queue' = Tail(queue)
    /\ UNCHANGED <<audio_path, audio_segment, play_obj, segments, worker,
                   model, list_enabled, items, handles, workers, pe, waiting,
                   closed>>
    /\ UNCHANGED find

(***************************************************************************)
(* closeEvent                                                              *)
(***************************************************************************)
\* The user closes the window and answers the question. On Yes: stop_audio(),
\* then worker.stop() and worker.wait() if the worker is running.
closeEvent(reply, sout) ==
    /\ UserInput
    /\ IF reply = "Yes"
       THEN /\ handles' = AfterStop(sout)
            /\ play_obj' = NoHandle
            /\ status' = StopStatus(sout)
            /\ IF worker # NoWorker /\ IsRunning(worker)
               THEN /\ workers' = [workers EXCEPT ![worker].is_running = FALSE]
                    /\ waiting' = TRUE
                    /\ UNCHANGED closed
               ELSE /\ closed' = TRUE
                    /\ UNCHANGED <<workers, waiting>>
       ELSE UNCHANGED <<handles, play_obj, status, workers, waiting, closed>>
    /\ UNCHANGED <<audio_path, audio_segment, segments, worker, model,
                   buttons, list_enabled, items, queue, pe>>
    /\ UNCHANGED find

\* worker.wait() returns once the thread has finished: event.accept().
close_accept ==
    /\ waiting
    /\ ~IsRunning(worker)
    /\ waiting' = FALSE
    /\ closed' = TRUE
    /\ UNCHANGED <<ctrl, handles, workers, queue, pe>>
    /\ UNCHANGED find

(***************************************************************************)
(* Specification                                                           *)
(***************************************************************************)
Next ==
    \/ \E f \in FileNames : load_audio(f)
    \/ transcribe_audio
    \/ transcribe_start
    \/ \E w \in 1..MaxWorkers : run_check(w)
    \/ \E w \in 1..MaxWorkers, segs \in Results : run_finished(w, segs)
    \/ \E w \in 1..MaxWorkers : run_error(w)
    \/ on_transcription_done
    \/ on_transcription_error
    \/ \E sout \in StopOutcomes, pout \in PlayOutcomes : play_audio(sout, pout)
    \/ \E sout \in StopOutcomes : stop_audio(sout)
    \/ \E i \in 1..2, sout \in StopOutcomes, pout \in PlayOutcomes :
          jump_to_word(i, sout, pout)
    \/ \E h \in 1..MaxHandles : HandleFinish(h)
    \/ \E reply \in {"Yes", "No"}, sout \in StopOutcomes : closeEvent(reply, sout)
    \/ close_accept

Spec == Init /\ [][Next]_vars

\* The code's scheduling: a started thread runs, the recognition call returns
\* or raises, and the event loop dispatches a queued signal.
FairSpec ==
    /\ Spec
    /\ WF_vars(\E w \in 1..MaxWorkers : run_check(w))
    /\ WF_vars(\E w \in 1..MaxWorkers :
                  run_error(w) \/ \E segs \in Results : run_finished(w, segs))
    /\ WF_vars(on_transcription_done \/ on_transcription_error)

(***************************************************************************)
(* SegmentStore.findActive (spec 4.1; the lookup is not part of main.py)   *)
(***************************************************************************)
MaxSegs == 2
MaxTime == 4

\* A segment's interval, start <= end, in whole time units.
Intervals ==
    {iv \in [startSec : 0..MaxTime, endSec : 0..MaxTime] : iv.startSec <= iv.endSec}

\* The timelines looked up: start-sorted and non-overlapping (a segment may
\* begin at the instant the one before it ends).
Timelines ==
    UNION { {tl \in [1..n -> Intervals] :
               \A i \in 1..(n - 1) : tl[i].endSec <= tl[i + 1].startSec}
            : n \in 0..MaxSegs }

RECURSIVE ScanFrom(_, _, _)
\* The linear scan in original order from position i, stopping at the first
\* segment with start <= t <= end; indices are reported from 0.
ScanFrom(segs, t, i) ==
    IF i > Len(segs) THEN NoIndex
    ELSE IF segs[i].startSec <= t /\ t <= segs[i].endSec THEN i - 1
    ELSE ScanFrom(segs, t, i + 1)

RECURSIVE ScanBack(_, _, _)
ScanBack(segs, t, i) ==
    IF i < 1 THEN NoIndex
    ELSE IF segs[i].startSec <= t /\ t <= segs[i].endSec THEN i - 1
    ELSE ScanBack(segs, t, i - 1)

\* Faulty variant of findActive: the last matching segment is returned.
findActive_last(segs, t) == ScanBack(segs, t, Len(segs))

findActive(segs, t) == ScanFrom(segs, t, 1)

\* A lookup: findActive(timeSec) on the store.
find_active(t) ==
    /\ timeSec' = t
    /\ active' = findActive(store, t)
    /\ UNCHANGED <<store, ctrl, handles, workers, queue, pe, waiting, closed>>

FindInit ==
    /\ store \in Timelines
    /\ timeSec = -1
    /\ active = NoIndex
    /\ audio_path = None
    /\ audio_segment = NoAudio
    /\ play_obj = NoHandle
    /\ segments = <<>>
    /\ worker = NoWorker
    /\ model = "small"
    /\ load_btn = TRUE
    /\ transcribe_btn = TRUE
    /\ play_btn = FALSE
    /\ stop_btn = FALSE
    /\ list_enabled = TRUE
    /\ items = <<>>
    /\ status = "model loaded"
    /\ handles = <<>>
    /\ workers = <<>>
    /\ queue = <<>>
    /\ pe = FALSE
    /\ waiting = FALSE
    /\ closed = FALSE

FindNext == \E t \in 0..(MaxTime + 1) : find_active(t)

\* The lookup alone, over every timeline and time within the bounds.
FindSpec == FindInit /\ [][FindNext]_vars

(***************************************************************************)
(* Notions the properties share                                            *)
(***************************************************************************)
\* The PlayObjects whose audio is playing.
LiveHandles == {h \in 1..Len(handles) : handles[h].state = "playing"}

\* Worker w was started and its finished/error signal is not yet delivered.
InFlight(w) ==
    /\ w \in 1..Len(workers)
    /\ \/ IsRunning(w)
       \/ \E k \in 1..Len(queue) : queue[k].w = w

InFlightSet == {w \in 1..Len(workers) : InFlight(w)}

AllEnabled == load_btn /\ transcribe_btn /\ play_btn /\ stop_btn

(***************************************************************************)
(* C1  After any sequence of play_audio / jump_to_word / stop_audio calls, *)
(* also when the device's stop() raises, at most one audio output handle   *)
(* is live, and it is the one play_obj refers to (every earlier handle was *)
(* stopped before the next was created).                                   *)
(***************************************************************************)
C1_AtMostOneLiveHandle ==
    /\ Cardinality(LiveHandles) <= 1
    /\ \A h \in LiveHandles : play_obj = h

(***************************************************************************)
(* C2  stop_audio never raises, leaves play_obj = None and leaves no audio *)
(* handle playing, whatever the state it is called in (a second call then  *)
(* finds play_obj = None and changes nothing).                             *)
(***************************************************************************)
C2_StopLeavesNothingLive ==
    [][(\E sout \in StopOutcomes : stop_audio(sout))
         => (play_obj' = NoHandle /\ LiveHandles' = {})]_vars

(***************************************************************************)
(* C3  At most one TranscribeWorker is in flight; while one is, self.worker *)
(* is that worker, the Transcribe button is disabled (no transcribe request *)
(* can reach transcribe_audio, so no second worker is created) and at most  *)
(* one completion is waiting to be applied.                                 *)
(***************************************************************************)
C3_OneJobInFlight ==
    /\ Cardinality(InFlightSet) <= 1
    /\ \A w \in InFlightSet : worker = w /\ ~transcribe_btn /\ ~pe
    /\ pe => InFlightSet = {} /\ ~transcribe_btn
    /\ Len(queue) <= 1
    /\ \A k \in 1..Len(queue) : workers[queue[k].w].emitted = queue[k].signal

\* A second run's worker is executing its call, the first run's is done.
C3_Witness ==
    /\ Len(workers) = 2
    /\ workers[2].thread = "calling"
    /\ workers[1] = Collected
    /\ segments # <<>>
    /\ worker = 2

(***************************************************************************)
(* C4  When AudioSegment.from_file raises in load_audio, audio_path,        *)
(* audio_segment, segments, play_obj and every button's enabled state are   *)
(* as before the call.                                                      *)
(***************************************************************************)
C4_FailedLoadChangesNothing ==
    [][\A f \in FileNames :
         (f # "" /\ ~Decodable(f) /\ load_audio(f))
           => UNCHANGED <<audio_path, audio_segment, segments, play_obj,
                          buttons, list_enabled>>]_vars

(***************************************************************************)
(* C5  Where no audio has been loaded successfully, transcribe_audio starts *)
(* no worker and leaves segments and every button's enabled state as they   *)
(* were.                                                                    *)
(***************************************************************************)
C5_NotReadyWithoutAudio ==
    [][(audio_segment = NoAudio /\ transcribe_audio)
         => (UNCHANGED <<buttons, segments, workers>> /\ ~pe')]_vars

(***************************************************************************)
(* C6  With audio loaded, a click on item i stops the current playback and *)
(* starts a new one (the device accepting the buffer) at segment i's stored *)
(* start time, start seconds * 1000, whether or not playback was live.      *)
(***************************************************************************)
C6_SelectSeeksToStoredStart ==
    [][\A i \in 1..Len(items) : \A sout \in StopOutcomes :
         (Truthy(audio_segment) /\ jump_to_word(i, sout, "ok"))
           => /\ AfterStop(sout) = [h \in 1..Len(handles) |-> handles'[h]]
              /\ play_obj' = Len(handles) + 1
              /\ handles'[play_obj'].state = "playing"
              /\ handles'[play_obj'].start_ms = segments[i].start]_vars

(***************************************************************************)
(* C7  When the worker's transcribe call raises, on_transcription_error    *)
(* re-enables load, transcribe, play and stop, keeps segments and the list  *)
(* as they were when the failed run began (nothing changes them while the   *)
(* run is in flight), and audio_path is still the path the run was given.   *)
(***************************************************************************)
C7_ErrorRecovers ==
    [][/\ on_transcription_error
          => /\ AllEnabled'
             /\ UNCHANGED <<segments, items, audio_path, audio_segment>>
             /\ audio_path # None
             /\ audio_path = workers[Head(queue).w].audio_path
       /\ (InFlightSet # {} /\ ~on_transcription_done)
          => UNCHANGED <<segments, items, audio_path>>]_vars

\* A second run has failed and the first run's segments are still listed.
C7_Witness ==
    /\ status = "transcription error"
    /\ Len(workers) = 2
    /\ workers[2].emitted = "error"
    /\ queue = <<>>
    /\ segments # <<>>
    /\ items = FormatItems(segments)
    /\ AllEnabled

(***************************************************************************)
(* C8  Once stop() has been called on a TranscribeWorker, the worker emits *)
(* no finished signal, even if its recognition call returns successfully.   *)
(***************************************************************************)
C8_CancelSuppressesFinished ==
    \A w \in 1..Len(workers) :
        ~workers[w].is_running => workers[w].emitted # "finished"

(***************************************************************************)
(* C9  (original) User operations are never blocked while the recognition  *)
(* call executes: the main thread is never held while a worker is inside    *)
(* model.transcribe.                                                        *)
(***************************************************************************)
C9_NeverBlockedDuringCall ==
    \A w \in 1..Len(workers) : workers[w].thread = "calling" => ~waiting

\* A step of a worker thread.
WorkerStep ==
    \E w \in 1..MaxWorkers :
        \/ run_check(w)
        \/ run_error(w)
        \/ \E segs \in Results : run_finished(w, segs)

(***************************************************************************)
(* C9  (amended) A worker thread's steps leave the controller's state      *)
(* alone; segments and the buttons' re-enabling change only in the slots    *)
(* run by the main thread; the controller's state changes only while the    *)
(* main thread is not blocked; and the main thread is blocked only in       *)
(* closeEvent's worker.wait(), after the close was confirmed and the        *)
(* worker told to stop.                                                     *)
(***************************************************************************)
C9_Serialized ==
    /\ [][/\ WorkerStep => UNCHANGED ctrl
          /\ segments' # segments => on_transcription_done
          /\ ctrl' # ctrl => ~waiting
          /\ (queue' # queue /\ ~WorkerStep)
               => (on_transcription_done \/ on_transcription_error)]_vars
    /\ [](waiting => /\ worker # NoWorker
                     /\ ~workers[worker].is_running
                     /\ play_obj = NoHandle)

\* A user operation (a failed play) ran while the worker was in its call.
C9_Witness ==
    /\ \E w \in 1..Len(workers) : workers[w].thread = "calling"
    /\ status = "audio playback error"
    /\ UserInput
    /\ ~AllEnabled

(***************************************************************************)
(* C10 (original) No path through TranscribeWorker.run ends without one of *)
(* the two signals having been emitted.                                     *)
(***************************************************************************)
C10_EveryRunEmits ==
    \A w \in 1..Len(workers) :
        workers[w].thread = "exited" => workers[w].emitted # "none"

\* Worker w has emitted its signal and the slot has run.
Delivered(w) ==
    /\ w \in 1..Len(workers)
    /\ workers[w].emitted # "none"
    /\ ~InFlight(w)

(***************************************************************************)
(* C10 (amended) A run ends without a signal only if closeEvent told the   *)
(* worker to stop; and unless a close is confirmed, every started worker's  *)
(* signal is eventually delivered to exactly one of on_transcription_done / *)
(* on_transcription_error, which re-enables load, transcribe, play and stop. *)
(***************************************************************************)
C10_NoJobStuck ==
    /\ [](\A w \in 1..Len(workers) :
             (workers[w].thread = "exited" /\ workers[w].emitted = "none")
                => ~workers[w].is_running)
    /\ [][\A w \in 1..MaxWorkers :
             (InFlight(w) /\ Delivered(w)') => AllEnabled']_vars
    /\ \A w \in 1..MaxWorkers :
          InFlight(w) ~> (Delivered(w) \/ waiting \/ closed)

\* The second run's signal has been delivered and the controls are back.
C10_Witness ==
    /\ Len(workers) = 2
    /\ Delivered(2)
    /\ AllEnabled
    /\ ~closed

(***************************************************************************)
(* C11 When a confirmed close reaches event.accept(): play_obj is None, no  *)
(* audio handle is playing, no worker is running, and a worker that was     *)
(* running has had its cancellation flag set and has terminated.            *)
(***************************************************************************)
C11_ShutdownLeavesNothingRunning ==
    [][(~closed /\ closed')
         => /\ play_obj' = NoHandle
            /\ LiveHandles' = {}
            /\ \A w \in 1..Len(workers) : ~IsRunning(w)'
            /\ waiting => ~workers[worker].is_running]_vars

(***************************************************************************)
(* C12 When play_buffer (or the slicing) raises inside play_audio, the     *)
(* error is reported in the status label, the prior session is torn down,   *)
(* play_obj is None, no audio handle is live and the list is enabled.       *)
(***************************************************************************)
C12_PlaybackErrorLeaksNothing ==
    [][(/\ Truthy(audio_segment)
        /\ \E sout \in StopOutcomes :
              \/ play_audio(sout, "raise")
              \/ \E i \in 1..Len(items) : jump_to_word(i, sout, "raise"))
         => /\ status' = "audio playback error"
            /\ play_obj' = NoHandle
            /\ LiveHandles' = {}
            /\ list_enabled']_vars

\* seg['text'] is blank: empty or whitespace only.
Blank(text) == text \in {"", " "}

(***************************************************************************)
(* C13 Every segment in self.segments and every item of the list has text  *)
(* that is not blank, whatever the recognition call returned.               *)
(***************************************************************************)
C13_NoBlankSegments ==
    /\ \A i \in 1..Len(segments) : ~Blank(segments[i].text)
    /\ \A i \in 1..Len(items) : ~Blank(items[i].text)

(***************************************************************************)
(* C14 If loading the recognition model failed at startup, the Transcribe  *)
(* button stays disabled and no worker is ever started, while load stays    *)
(* enabled and play and stop are enabled once audio has been loaded.        *)
(***************************************************************************)
C14_ModelUnavailable ==
    model = None =>
        /\ ~transcribe_btn
        /\ workers = <<>> /\ worker = NoWorker
        /\ ~pe /\ ~waiting /\ queue = <<>>
        /\ load_btn
        /\ audio_segment # NoAudio => play_btn /\ stop_btn

\* Without a model a file was loaded, played and stopped.
C14_Witness ==
    /\ model = None
    /\ audio_segment.src = "a.wav"
    /\ Len(handles) = 1
    /\ handles[1] = Ended
    /\ play_obj = NoHandle
    /\ ~closed

\* The segments of timeline tl whose closed interval holds time t.
Containing(tl, t) ==
    {i \in 1..Len(tl) : tl[i].startSec <= t /\ t <= tl[i].endSec}

(***************************************************************************)
(* C15 On a start-sorted, non-overlapping timeline findActive(t) returns   *)
(* None when no segment contains t, and otherwise a segment containing t:   *)
(* the only one, or the earlier one when t is the boundary two segments     *)
(* share.                                                                   *)
(***************************************************************************)
C15_FindActive ==
    timeSec # -1 =>
        IF Containing(store, timeSec) = {}
        THEN active = NoIndex
        ELSE /\ active + 1 \in Containing(store, timeSec)
             /\ \A j \in Containing(store, timeSec) : active + 1 <= j

\* Segments (0,2) and (2,4) asked about their shared boundary: index 0.
C15_Witness ==
    /\ store = << [startSec |-> 0, endSec |-> 2], [startSec |-> 2, endSec |-> 4] >>
    /\ timeSec = 2
    /\ active = 0

(***************************************************************************)
(* C16 self.segments starts empty and changes only in on_transcription_done, *)
(* which replaces it by the whole list the worker emitted; and in every      *)
(* state the list shows one item per stored segment, in the same order.      *)
(***************************************************************************)
C16_WholesaleReplacement ==
    /\ segments = <<>>
    /\ [][segments' # segments
            => (on_transcription_done /\ segments' = Head(queue).segments)]_vars
    /\ [](items = FormatItems(segments))

\* A second run's result has replaced the first run's.
C16_Witness ==
    /\ Len(workers) = 2
    /\ workers[1] = Collected
    /\ workers[2].emitted = "finished"
    /\ queue = <<>>
    /\ Len(segments) = 2
    /\ status = "transcription done"

(***************************************************************************)
(* C17 While a recognition job is in flight no operation short of closing  *)
(* the window starts or stops playback: play_obj does not change.           *)
(***************************************************************************)
C17_NoPlaybackChangeInFlight ==
    [][(InFlightSet # {} /\ UNCHANGED <<waiting, closed>>)
         => UNCHANGED play_obj]_vars

(***************************************************************************)
(* C18 Once jump_to_word has returned, the transcription list is enabled,  *)
(* whether playback started, failed or was skipped.                         *)
(***************************************************************************)
C18_ListEnabledAfterJump ==
    [][(\E i \in 1..Len(items), sout \in StopOutcomes, pout \in PlayOutcomes :
           jump_to_word(i, sout, pout))
         => list_enabled']_vars

(***************************************************************************)
(* C19 While a recognition job is in flight audio_path and audio_segment   *)
(* do not change, and audio_path is the path the worker was given: the      *)
(* segments a completion applies were recognized from the current path.     *)
(***************************************************************************)
C19_AudioFixedInFlight ==
    /\ [][InFlightSet # {} => UNCHANGED <<audio_path, audio_segment>>]_vars
    /\ [](\A w \in InFlightSet : workers[w].audio_path = audio_path)

\* A second run, on another file than the first, has its result queued.
C19_Witness ==
    /\ Len(workers) = 2
    /\ workers[2].audio_path = "empty.wav"
    /\ audio_segment.src = "empty.wav"
    /\ segments # <<>>
    /\ queue # <<>>
    /\ Head(queue).signal = "finished"
    /\ Head(queue).w = 2

====
